---- MODULE Spec2Model ----
(***************************************************************************)
(* SortingCards.py: a merge sort over playing cards whose two recursive    *)
(* halves are submitted to a ProcessPoolExecutor while the depth budget    *)
(* max_depth is positive, a two-way stable merge, the depth policy         *)
(* get_optimal_max_depth, and the main program that compares the parallel  *)
(* sort with Python's sorted().                                            *)
(*                                                                         *)
(* A call of parallel_merge_sort is a node of a binary tree, numbered as a *)
(* heap: the call made by main is node 1 and the calls submitted by node n *)
(* are 2n (left half) and 2n+1 (right half).  Each call owns a copy of its *)
(* slice (the arguments are pickled to the worker process), so the only    *)
(* shared state is the futures, i.e. the status and result of each node.   *)
(***************************************************************************)
EXTENDS Integers, Sequences, FiniteSets, TLC

\* Longest deck handed to parallel_merge_sort.
MaxLen == 3
\* Largest number of cores multiprocessing.cpu_count() reports.
MaxCpu == 70
\* Longest of the two lists handed to merge when it is exercised alone.
MaxMergeLen == 3

VARIABLES input, max_depth, calls, pc, sorted_parallel, sorted_sequential,
          cpu_count, optimal_depth, m_left, m_right, merged

vars == <<input, max_depth, calls, pc, sorted_parallel, sorted_sequential,
          cpu_count, optimal_depth, m_left, m_right, merged>>

policyVars == <<cpu_count, optimal_depth>>
mergeVars == <<m_left, m_right, merged>>

----------------------------------------------------------------------------
(* Cards and their keys *)

\* suits_order: the priority of each palo.
suits_order ==
  [s \in {"corazones", "tréboles", "picas", "diamantes", "comodin"} |->
     CASE s = "corazones" -> 0
       [] s = "tréboles" -> 1
       [] s = "picas" -> 2
       [] s = "diamantes" -> 3
       [] s = "comodin" -> 4]

\* ranks_order: the priority of each rank; the ace is low.
ranks_order ==
  [r \in {"2", "3", "4", "5", "6", "7", "8", "9", "10", "J", "Q", "K", "A"} |->
     CASE r = "2" -> 2 [] r = "3" -> 3 [] r = "4" -> 4 [] r = "5" -> 5
       [] r = "6" -> 6 [] r = "7" -> 7 [] r = "8" -> 8 [] r = "9" -> 9
       [] r = "10" -> 10 [] r = "J" -> 11 [] r = "Q" -> 12 [] r = "K" -> 13
       [] r = "A" -> 1]

\* The rank of a comodin is the int 1 or 2 (Card("comodin", 1)), every other
\* rank is a str.  A rank is written here as a string throughout; the ints 1
\* and 2 are written "#1" and "#2" and JokerRank gives back the int.
JokerRank == [r \in {"#1", "#2"} |-> IF r = "#1" THEN 1 ELSE 2]

\* Card(suit, rank); id stands for the identity of the Python object, which
\* tells apart two cards of the same suit and rank.
Card(suit, rank, id) == [suit |-> suit, rank |-> rank, id |-> id]

\* Card.key raises KeyError when the suit or the rank is not in the tables.
KeyOK(card) ==
  /\ card.suit \in DOMAIN suits_order
  /\ IF card.suit = "comodin"
       THEN card.rank \in DOMAIN JokerRank
       ELSE card.rank \in DOMAIN ranks_order

\* Card.key: the pair (order of the suit, order of the rank).
key(card) ==
  IF card.suit = "comodin"
    THEN <<suits_order[card.suit], JokerRank[card.rank]>>
    ELSE <<suits_order[card.suit], ranks_order[card.rank]>>

\* card_sort_key
card_sort_key(card) == key(card)

\* Python's comparison of two tuples of ints: the first position that
\* differs decides.
TupleLT(a, b) == a[1] < b[1] \/ (a[1] = b[1] /\ a[2] < b[2])

\* A comparison that looks at the suit only.
TupleLE_suit_only(a, b) == a[1] <= b[1]

TupleLE(a, b) == a[1] < b[1] \/ (a[1] = b[1] /\ a[2] <= b[2])

AllKeysOK(array) == \A i \in 1..Len(array) : KeyOK(array[i])

----------------------------------------------------------------------------
(* sorted() and merge *)

\* One insertion of Python's stable sort: x goes after every element whose
\* key is not greater than its own.
RECURSIVE InsertSorted(_, _)
InsertSorted(s, x) ==
  IF s = <<>> THEN <<x>>
  ELSE IF TupleLT(card_sort_key(x), card_sort_key(s[Len(s)]))
         THEN Append(InsertSorted(SubSeq(s, 1, Len(s) - 1), x), s[Len(s)])
         ELSE Append(s, x)

\* sorted(array, key=key): a stable sort, ascending by key.
RECURSIVE sorted(_)
sorted(array) ==
  IF array = <<>> THEN <<>>
  ELSE InsertSorted(sorted(SubSeq(array, 1, Len(array) - 1)), array[Len(array)])

\* A merge whose test is <, so that the right list wins the ties.
RECURSIVE MergeLoop_right_wins(_, _, _, _, _)
MergeLoop_right_wins(left, right, i, j, acc) ==
  IF i <= Len(left) /\ j <= Len(right)
    THEN IF TupleLT(card_sort_key(left[i]), card_sort_key(right[j]))
           THEN MergeLoop_right_wins(left, right, i + 1, j, Append(acc, left[i]))
           ELSE MergeLoop_right_wins(left, right, i, j + 1, Append(acc, right[j]))
    ELSE acc \o SubSeq(left, i, Len(left)) \o SubSeq(right, j, Len(right))

\* A merge without merged.extend(right[j:]).
RECURSIVE MergeLoop_no_right_tail(_, _, _, _, _)
MergeLoop_no_right_tail(left, right, i, j, acc) ==
  IF i <= Len(left) /\ j <= Len(right)
    THEN IF TupleLE(card_sort_key(left[i]), card_sort_key(right[j]))
           THEN MergeLoop_no_right_tail(left, right, i + 1, j, Append(acc, left[i]))
           ELSE MergeLoop_no_right_tail(left, right, i, j + 1, Append(acc, right[j]))
    ELSE acc \o SubSeq(left, i, Len(left))

\* The while loop of merge and the two extends after it; i and j are the
\* cursors (1-based here).
RECURSIVE MergeLoop(_, _, _, _, _)
MergeLoop(left, right, i, j, acc) ==
  IF i <= Len(left) /\ j <= Len(right)
    THEN IF TupleLE(card_sort_key(left[i]), card_sort_key(right[j]))
           THEN MergeLoop(left, right, i + 1, j, Append(acc, left[i]))
           ELSE MergeLoop(left, right, i, j + 1, Append(acc, right[j]))
    ELSE acc \o SubSeq(left, i, Len(left)) \o SubSeq(right, j, Len(right))

\* A merge called with its two lists exchanged.
merge_swapped(left, right) == MergeLoop(right, left, 1, 1, <<>>)

\* merge(left, right, key)
merge(left, right) == MergeLoop(left, right, 1, 1, <<>>)

----------------------------------------------------------------------------
(* parallel_merge_sort *)

Root == 1
LeftChild(n) == 2 * n
RightChild(n) == 2 * n + 1

\* mid = len(array) // 2
Mid(array) == Len(array) \div 2
\* array[:mid]
left_part(array) == SubSeq(array, 1, Mid(array))
\* A right half that starts one card late: array[mid + 1:].
right_part_late(array) == SubSeq(array, Mid(array) + 2, Len(array))

\* array[mid:]
right_part(array) == SubSeq(array, Mid(array) + 1, Len(array))

\* A budget handed on as it is.
ChildDepth_same(d) == d

\* The budget a call hands to each of the two calls it submits.
ChildDepth(d) == d - 1

\* The test of line 61: sort here, with sorted(), and submit nothing.
BaseCase(array, d) == Len(array) <= 1 \/ d <= 0

\* A call that has been submitted (or, for the root, made) and not entered.
NewCall(array, d) ==
  [array |-> array, max_depth |-> d, st |-> "submitted", exc |-> "none",
   left_sorted |-> <<>>, right_sorted |-> <<>>, result |-> <<>>]

Finished(n) == calls[n].st \in {"returned", "raised"}

\* The futures of the executor of call n.
Children(n) == {LeftChild(n), RightChild(n)} \cap DOMAIN calls

\* A worker (or main, for the root) enters the call.  The base case sorts
\* with sorted(), which raises the KeyError of Card.key.  Otherwise the call
\* splits, creates its executor and submits the left half; submit raises
\* when no worker process can be started.  A submitted call may be entered
\* at any time: an executor with a single worker (one core) enters the
\* right half only after the left one is over, which is one of the orders
\* allowed here.
Enter(n) ==
  /\ calls[n].st = "submitted"
  /\ IF BaseCase(calls[n].array, calls[n].max_depth)
       THEN IF AllKeysOK(calls[n].array)
              THEN calls' = [calls EXCEPT ![n].st = "returned",
                                          ![n].result = sorted(calls[n].array)]
              ELSE calls' = [calls EXCEPT ![n].st = "raised",
                                          ![n].exc = "KeyError"]
       ELSE \/ calls' = (LeftChild(n) :> NewCall(left_part(calls[n].array),
                                                 ChildDepth(calls[n].max_depth)))
                        @@ [calls EXCEPT ![n].st = "submit_right"]
            \/ calls' = [calls EXCEPT ![n].st = "shutdown", ![n].exc = "OSError"]
  /\ UNCHANGED <<input, max_depth, pc, sorted_parallel, sorted_sequential>>

\* executor.submit of the right half.  When it raises because a second
\* worker process cannot be started, the work item may already be in the
\* queue of the executor, and the worker that runs the left half then runs
\* it too, for a future nobody holds.
SubmitRight(n) ==
  /\ calls[n].st = "submit_right"
  /\ \/ calls' = (RightChild(n) :> NewCall(right_part(calls[n].array),
                                           ChildDepth(calls[n].max_depth)))
                 @@ [calls EXCEPT ![n].st = "left_result"]
     \/ calls' = [calls EXCEPT ![n].st = "shutdown", ![n].exc = "OSError"]
     \/ calls' = (RightChild(n) :> NewCall(right_part(calls[n].array),
                                           ChildDepth(calls[n].max_depth)))
                 @@ [calls EXCEPT ![n].st = "shutdown", ![n].exc = "OSError"]
  /\ UNCHANGED <<input, max_depth, pc, sorted_parallel, sorted_sequential>>

\* A left result taken whatever became of the child: an exception is
\* swallowed and the empty result kept.
AfterLeftResult_swallow(c, child) ==
  [c EXCEPT !.st = "right_result", !.left_sorted = child.result]

\* What future.result() does with a finished child: its value, or its
\* exception raised again in the caller.
AfterLeftResult(c, child) ==
  IF child.st = "returned"
    THEN [c EXCEPT !.st = "right_result", !.left_sorted = child.result]
    ELSE [c EXCEPT !.st = "shutdown", !.exc = child.exc]

\* With both results in hand the with block ends at once: no future of the
\* executor is outstanding.
AfterRightResult(c, child) ==
  IF child.st = "returned"
    THEN [c EXCEPT !.st = "merge", !.right_sorted = child.result]
    ELSE [c EXCEPT !.st = "shutdown", !.exc = child.exc]

\* left_sorted = left_future.result(): blocks until the left call is over.
LeftResult(n) ==
  /\ calls[n].st = "left_result"
  /\ Finished(LeftChild(n))
  /\ calls' = [calls EXCEPT ![n] = AfterLeftResult(calls[n], calls[LeftChild(n)])]
  /\ UNCHANGED <<input, max_depth, pc, sorted_parallel, sorted_sequential>>

\* right_sorted = right_future.result()
RightResult(n) ==
  /\ calls[n].st = "right_result"
  /\ Finished(RightChild(n))
  /\ calls' = [calls EXCEPT ![n] = AfterRightResult(calls[n], calls[RightChild(n)])]
  /\ UNCHANGED <<input, max_depth, pc, sorted_parallel, sorted_sequential>>

\* An executor shut down without waiting: shutdown(wait=False).
ShutdownReady_no_wait(n) == TRUE

\* An end of block that waits for two futures, also when a submit raised
\* and one of them was never made.
ShutdownReady_both_futures(n) ==
  \A m \in {LeftChild(n), RightChild(n)} : m \in DOMAIN calls /\ Finished(m)

\* What the end of the with block waits for: shutdown(wait=True) returns
\* when every submitted call is over.
ShutdownReady(n) == \A m \in Children(n) : Finished(m)

\* Leaving the with block with an exception pending: the call raises it
\* once the executor has shut down.
Shutdown(n) ==
  /\ calls[n].st = "shutdown"
  /\ ShutdownReady(n)
  /\ calls' = [calls EXCEPT ![n].st = "raised"]
  /\ UNCHANGED <<input, max_depth, pc, sorted_parallel, sorted_sequential>>

\* return merge(left_sorted, right_sorted, key=key)
Return(n) ==
  /\ calls[n].st = "merge"
  /\ calls' = [calls EXCEPT ![n].st = "returned",
                            ![n].result = merge(calls[n].left_sorted,
                                                calls[n].right_sorted)]
  /\ UNCHANGED <<input, max_depth, pc, sorted_parallel, sorted_sequential>>

----------------------------------------------------------------------------
(* main *)

\* The call of line 227 is over: main keeps the sorted deck, or the
\* exception ends the program.
ParallelDone ==
  /\ pc = "parallel"
  /\ Finished(Root)
  /\ IF calls[Root].st = "returned"
       THEN /\ sorted_parallel' = calls[Root].result
            /\ pc' = "sequential"
       ELSE /\ sorted_parallel' = sorted_parallel
            /\ pc' = "aborted"
  /\ UNCHANGED <<input, max_depth, calls, sorted_sequential>>

\* sorted_sequential = sorted(deck_for_sequential, key=card_sort_key)
SequentialSort ==
  /\ pc = "sequential"
  /\ IF AllKeysOK(input)
       THEN /\ sorted_sequential' = sorted(input)
            /\ pc' = "done"
       ELSE /\ sorted_sequential' = sorted_sequential
            /\ pc' = "aborted"
  /\ UNCHANGED <<input, max_depth, calls, sorted_parallel>>

----------------------------------------------------------------------------
(* get_optimal_max_depth *)

\* int(math.log2(p)) for p >= 1: math.log2 is exact on the powers of two
\* and, for the core counts considered, never rounds up to the next
\* integer, so the truncation is the number of times p can be halved.
RECURSIVE IntLog2(_)
IntLog2(p) == IF p < 2 THEN 0 ELSE 1 + IntLog2(p \div 2)

\* A policy that rounds log2 up.
get_optimal_max_depth_ceil(cpus) == IF cpus < 2 THEN 0 ELSE IntLog2(2 * cpus - 1)

\* get_optimal_max_depth, with cpu_count the value of
\* multiprocessing.cpu_count().
get_optimal_max_depth(cpus) == IF cpus < 2 THEN 0 ELSE IntLog2(cpus)

\* optimal_depth before line 214 has run.
NotComputed == -1

\* optimal_depth = get_optimal_max_depth()
ComputeOptimalDepth ==
  /\ pc = "policy"
  /\ optimal_depth' = get_optimal_max_depth(cpu_count)
  /\ pc' = "policy_done"
  /\ UNCHANGED <<cpu_count, input, max_depth, calls, sorted_parallel,
                 sorted_sequential, mergeVars>>

----------------------------------------------------------------------------
(* merge on its own *)

\* merged = merge(left, right, key)
MergeCall ==
  /\ pc = "merge"
  /\ merged' = merge(m_left, m_right)
  /\ pc' = "merged"
  /\ UNCHANGED <<m_left, m_right, input, max_depth, calls, sorted_parallel,
                 sorted_sequential, policyVars>>

----------------------------------------------------------------------------
(* The decks *)

\* The kinds of card a deck is drawn from: two ranks of one suit (the ace
\* is low), a comodin, which sorts after that suit whatever its rank, and a
\* card of a suit that suits_order does not know.
CardKinds ==
  { <<"corazones", "K">>, <<"corazones", "A">>, <<"comodin", "#1">>,
    <<"espadas", "3">> }

GoodKinds == { k \in CardKinds : KeyOK(Card(k[1], k[2], 0)) }

\* Every deck of n cards of the given kinds; the id of a card is its place.
DecksOf(kinds, n, firstId) ==
  { [i \in 1..n |-> Card(f[i][1], f[i][2], firstId + i - 1)] : f \in [1..n -> kinds] }

Decks == UNION { DecksOf(CardKinds, n, 1) : n \in 0..MaxLen }

\* ceil(log2(m)) for m >= 1, and 0 for no card.
RECURSIVE CeilLog2(_)
CeilLog2(m) == IF m < 2 THEN 0 ELSE 1 + CeilLog2((m + 1) \div 2)

\* The values of max_depth tried on a deck of the given size: a negative
\* one, 0, and every depth up to two more than what splits the deck into
\* single cards.
Depths(size) == (-1)..(CeilLog2(size) + 2)

Init ==
  /\ input \in Decks
  /\ max_depth \in Depths(Len(input))
  /\ calls = (Root :> NewCall(input, max_depth))
  /\ pc = "parallel"
  /\ sorted_parallel = <<>>
  /\ sorted_sequential = <<>>
  /\ cpu_count = 1
  /\ optimal_depth = NotComputed
  /\ m_left = <<>>
  /\ m_right = <<>>
  /\ merged = <<>>

Step(n) ==
  \/ Enter(n)
  \/ SubmitRight(n)
  \/ LeftResult(n)
  \/ RightResult(n)
  \/ Shutdown(n)
  \/ Return(n)

Next ==
  \/ \E n \in DOMAIN calls : Step(n) /\ UNCHANGED <<policyVars, mergeVars>>
  \/ ParallelDone /\ UNCHANGED <<policyVars, mergeVars>>
  \/ SequentialSort /\ UNCHANGED <<policyVars, mergeVars>>

Spec == Init /\ [][Next]_vars

\* The steps of the processes: every worker process that has been given a
\* call is scheduled by the operating system, and so is main.  Each call
\* has an executor of its own (line 69), so a submitted call never waits
\* for a worker held by another call.
Progress ==
  \/ \E n \in DOMAIN calls : Step(n) /\ UNCHANGED <<policyVars, mergeVars>>
  \/ ParallelDone /\ UNCHANGED <<policyVars, mergeVars>>
  \/ SequentialSort /\ UNCHANGED <<policyVars, mergeVars>>

\* Whether a run ends depends on the sizes, the budget and the failures,
\* not on the order of the keys: the fair runs start from decks of one
\* good and one bad kind of card.
FairKinds == { <<"corazones", "K">>, <<"espadas", "3">> }

InitFair ==
  /\ input \in UNION { DecksOf(FairKinds, n, 1) : n \in 0..MaxLen }
  /\ max_depth \in Depths(Len(input))
  /\ calls = (Root :> NewCall(input, max_depth))
  /\ pc = "parallel"
  /\ sorted_parallel = <<>>
  /\ sorted_sequential = <<>>
  /\ cpu_count = 1
  /\ optimal_depth = NotComputed
  /\ m_left = <<>>
  /\ m_right = <<>>
  /\ merged = <<>>

SpecFair == InitFair /\ [][Next]_vars /\ WF_vars(Progress)

\* The depth policy alone, for every core count.
InitPolicy ==
  /\ cpu_count \in 1..MaxCpu
  /\ optimal_depth = NotComputed
  /\ pc = "policy"
  /\ input = <<>>
  /\ max_depth = 0
  /\ calls = <<>>
  /\ sorted_parallel = <<>>
  /\ sorted_sequential = <<>>
  /\ m_left = <<>>
  /\ m_right = <<>>
  /\ merged = <<>>

NextPolicy == ComputeOptimalDepth

SpecPolicy == InitPolicy /\ [][NextPolicy]_vars

\* The lists merge is specified for: each sorted ascending by key.
IsSortedByKey(s) ==
  \A i \in 1..(Len(s) - 1) : TupleLE(card_sort_key(s[i]), card_sort_key(s[i + 1]))

SortedDecks(firstId) ==
  UNION { { d \in DecksOf(GoodKinds, n, firstId) : IsSortedByKey(d) } : n \in 0..MaxMergeLen }

\* merge alone, for every pair of sorted lists; the cards of the right list
\* are other objects than those of the left.
InitMerge ==
  /\ m_left \in SortedDecks(1)
  /\ m_right \in SortedDecks(MaxMergeLen + 1)
  /\ merged = <<>>
  /\ pc = "merge"
  /\ input = <<>>
  /\ max_depth = 0
  /\ calls = <<>>
  /\ sorted_parallel = <<>>
  /\ sorted_sequential = <<>>
  /\ cpu_count = 1
  /\ optimal_depth = NotComputed

NextMerge == MergeCall

SpecMerge == InitMerge /\ [][NextMerge]_vars

----------------------------------------------------------------------------
(* The value of parallel_merge_sort *)

\* What parallel_merge_sort(array, key, d) returns when every key can be
\* computed and every submit succeeds: the result does not depend on the
\* order in which the two futures complete.
RECURSIVE parallel_merge_sort(_, _)
parallel_merge_sort(array, d) ==
  IF BaseCase(array, d)
    THEN sorted(array)
    ELSE merge(parallel_merge_sort(left_part(array), ChildDepth(d)),
               parallel_merge_sort(right_part(array), ChildDepth(d)))

----------------------------------------------------------------------------
(* Vocabulary of the properties *)

\* Lexicographic order on pairs, primary first.
LexLE(a, b) == IF a[1] # b[1] THEN a[1] < b[1] ELSE a[2] <= b[2]

Occurrences(s, x) == Cardinality({ i \in 1..Len(s) : s[i] = x })

SameMultiset(s, t) ==
  /\ Len(s) = Len(t)
  /\ \A i \in 1..Len(s) : Occurrences(s, s[i]) = Occurrences(t, s[i])

Ascending(s) == \A i \in 1..(Len(s) - 1) : LexLE(key(s[i]), key(s[i + 1]))

PlaceOf(s, x) == CHOOSE i \in 1..Len(s) : s[i] = x

\* Cards of equal key keep in out the order they have in inp.
KeepsOrderOfEquals(inp, out) ==
  \A i, j \in 1..Len(inp) :
    (i < j /\ key(inp[i]) = key(inp[j])) =>
      PlaceOf(out, inp[i]) < PlaceOf(out, inp[j])

RECURSIVE Pow2(_)
Pow2(k) == IF k <= 0 THEN 1 ELSE 2 * Pow2(k - 1)

\* The recursion level of a call: 0 for the call made by main.
RECURSIVE Level(_)
Level(n) == IF n <= 1 THEN 0 ELSE 1 + Level(n \div 2)

Returned(n) == n \in DOMAIN calls /\ calls[n].st = "returned"
Raised(n) == n \in DOMAIN calls /\ calls[n].st = "raised"

\* A call that got past the test of line 61.
Dispatches(n) == ~BaseCase(calls[n].array, calls[n].max_depth)

\* A call that has been submitted and whose future is not yet resolved.
Outstanding(n) == n \in DOMAIN calls /\ calls[n].st \notin {"returned", "raised"}

----------------------------------------------------------------------------
(* C1 *)

\* C1: whatever max_depth, the list a call of parallel_merge_sort returns
\* holds exactly the cards of the list it was given, each as often: none
\* dropped, none duplicated.
C1_Permutation ==
  \A n \in DOMAIN calls :
    calls[n].st = "returned" => SameMultiset(calls[n].result, calls[n].array)

\* A deck of the largest size, with two cards alike, sorted through two
\* levels of workers with max_depth = ceil(log2(size)) + 2.
C1_Witness ==
  /\ Returned(Root) /\ Returned(2) /\ Returned(6) /\ Returned(7)
  /\ Len(input) = MaxLen
  /\ max_depth = CeilLog2(Len(input)) + 2
  /\ calls[Root].result # input
  /\ \E i, j \in 1..Len(input) : i # j /\ key(input[i]) = key(input[j])

----------------------------------------------------------------------------
(* C2 *)

\* C2: the list parallel_merge_sort returns is ascending by key, the keys
\* being pairs compared lexicographically.
C2_Ordering ==
  \A n \in DOMAIN calls : calls[n].st = "returned" => Ascending(calls[n].result)

\* A deck in which the suit decides against the rank (a comodin of rank 1
\* after the king of corazones) and the rank breaks a tie of suits, given
\* out of order and sorted by workers.
C2_Witness ==
  /\ Returned(Root) /\ Returned(2) /\ Returned(3)
  /\ Len(input) = 3
  /\ input[1].suit = "comodin"
  /\ input[2].suit = "corazones" /\ input[2].rank = "K"
  /\ input[3].suit = "corazones" /\ input[3].rank = "A"
  /\ calls[Root].result = <<input[3], input[2], input[1]>>

----------------------------------------------------------------------------
(* C3 *)

\* C3: two cards of equal key come out of parallel_merge_sort in the order
\* they went in, also when a split put them in different halves.
C3_Stability ==
  \A n \in DOMAIN calls :
    calls[n].st = "returned" => KeepsOrderOfEquals(calls[n].array, calls[n].result)

\* Two cards of equal key that the first split separates, sorted by workers.
C3_Witness ==
  /\ Returned(Root) /\ Returned(2) /\ Returned(3)
  /\ Len(input) >= 2
  /\ key(input[1]) = key(input[Len(input)])
  /\ \E i \in 1..Len(calls[2].array) : calls[2].array[i] = input[1]
  /\ \E i \in 1..Len(calls[3].array) : calls[3].array[i] = input[Len(input)]

----------------------------------------------------------------------------
(* C4 *)

\* C4: the list returned for a deck is the same for every max_depth and
\* every interleaving of the workers: it is the value of the call for each
\* other depth, and it is what sorted() gives main for the same deck.
C4_DepthInvariance ==
  /\ Returned(Root) =>
       \A d \in Depths(Len(input)) : calls[Root].result = parallel_merge_sort(input, d)
  /\ Returned(Root) => calls[Root].result = sorted(input)
  /\ pc = "done" => sorted_parallel = sorted_sequential

\* main has both lists, the parallel one made by two levels of workers from
\* a deck that was not in order and has cards of equal key.
C4_Witness ==
  /\ pc = "done"
  /\ Returned(2) /\ Returned(3) /\ Returned(6)
  /\ sorted_parallel # input
  /\ \E i, j \in 1..Len(input) : i # j /\ key(input[i]) = key(input[j])

----------------------------------------------------------------------------
(* C5 *)

\* C5: when one of the two calls a level submitted fails (a worker that
\* could not start one of its own, a key that cannot be computed), the
\* level fails with it and so does the call made by main: nothing is
\* returned, merge is not run on a partial result, and nothing is sorted
\* sequentially instead.
C5_FailurePropagation ==
  /\ \A n \in DOMAIN calls :
       /\ (Finished(n) /\ \E m \in Children(n) : Raised(m)) =>
            (calls[n].st = "raised" /\ calls[n].result = <<>>)
       /\ calls[n].st \in {"merge", "returned"} /\ Dispatches(n) =>
            (Returned(LeftChild(n)) /\ Returned(RightChild(n)))
       /\ calls[n].st = "raised" => calls[n].exc # "none" /\ calls[n].result = <<>>
  /\ (Finished(Root) /\ \E n \in DOMAIN calls : Raised(n)) => Raised(Root)
  /\ (Finished(Root) /\ ~AllKeysOK(input)) => Raised(Root)
  /\ Raised(Root) /\ pc # "parallel" =>
       pc = "aborted" /\ sorted_parallel = <<>> /\ sorted_sequential = <<>>

\* A key that cannot be computed two levels down has ended main, while the
\* other half had been sorted.
C5_Witness ==
  /\ pc = "aborted"
  /\ Returned(2)
  /\ Raised(3) /\ calls[3].exc = "KeyError"
  /\ Raised(6) \/ Raised(7)
  /\ calls[Root].exc = "KeyError"

----------------------------------------------------------------------------
(* C6 *)

\* C6: get_optimal_max_depth returns 0 for fewer than 2 cores and otherwise
\* the largest d with 2^d <= cores (3 for 8 cores); never a negative number.
C6_DepthPolicy ==
  pc = "policy_done" =>
    /\ optimal_depth >= 0
    /\ cpu_count < 2 => optimal_depth = 0
    /\ cpu_count >= 2 =>
         /\ Pow2(optimal_depth) <= cpu_count
         /\ cpu_count < Pow2(optimal_depth + 1)
    /\ cpu_count = 8 => optimal_depth = 3

\* The policy has answered for a core count that is no power of two.
C6_Witness == pc = "policy_done" /\ cpu_count = 12 /\ optimal_depth = 3

----------------------------------------------------------------------------
(* C7 *)

\* C7: merge of two lists sorted by key returns all their cards, ascending,
\* the cards of each list in their order and, among cards of equal key,
\* those of left before those of right; an empty list leaves the other.
C7_MergeCorrect ==
  pc = "merged" =>
    /\ SameMultiset(merged, m_left \o m_right)
    /\ Ascending(merged)
    /\ KeepsOrderOfEquals(m_left \o m_right, merged)
    /\ \A i, j \in 1..Len(m_left) :
         i < j => PlaceOf(merged, m_left[i]) < PlaceOf(merged, m_left[j])
    /\ \A i, j \in 1..Len(m_right) :
         i < j => PlaceOf(merged, m_right[i]) < PlaceOf(merged, m_right[j])
    /\ m_left = <<>> => merged = m_right
    /\ m_right = <<>> => merged = m_left

\* Two lists that interleave and share a key have been merged.
C7_Witness ==
  /\ pc = "merged"
  /\ Len(m_left) = 3 /\ Len(m_right) = 3
  /\ key(m_left[1]) = key(m_right[1])
  /\ TupleLT(key(m_right[2]), key(m_left[3]))
  /\ merged[1] = m_left[1]

----------------------------------------------------------------------------
(* C8 *)

\* C8: a level that dispatches submits its left half array[:size//2] and
\* its right half array[size//2:], each with max_depth - 1, and nothing
\* else; it merges only when both futures are resolved and it holds both
\* results, and it never returns or raises with a future outstanding.
C8_JoinBeforeMerge ==
  \A n \in DOMAIN calls :
    /\ \A m \in {2 * n, 2 * n + 1} \cap DOMAIN calls :
         /\ calls[m].max_depth = calls[n].max_depth - 1
         /\ calls[m].array =
              IF m = 2 * n
                THEN SubSeq(calls[n].array, 1, Len(calls[n].array) \div 2)
                ELSE SubSeq(calls[n].array, Len(calls[n].array) \div 2 + 1,
                            Len(calls[n].array))
    /\ calls[n].st \in {"merge", "returned", "raised"} =>
         \A m \in {2 * n, 2 * n + 1} : ~Outstanding(m)
    /\ calls[n].st = "merge" \/ (calls[n].st = "returned" /\ Dispatches(n)) =>
         /\ Returned(2 * n) /\ Returned(2 * n + 1)
         /\ calls[n].left_sorted = calls[2 * n].result
         /\ calls[n].right_sorted = calls[2 * n + 1].result

\* A level is about to merge the results of its two children.
C8_Witness ==
  /\ calls[Root].st = "merge"
  /\ Len(calls[Root].left_sorted) + Len(calls[Root].right_sorted) = MaxLen

----------------------------------------------------------------------------
(* C9 *)

\* C9: with max_depth >= 0 no call runs at a level deeper than max_depth:
\* a call at level l holds the budget max_depth - l, a call whose budget is
\* used up submits nothing, and so there are never more than 2^max_depth
\* outstanding calls at one level, nor outstanding calls that sort.
C9_BoundedFanOut ==
  max_depth >= 0 =>
    /\ \A n \in DOMAIN calls :
         /\ Level(n) <= max_depth
         /\ calls[n].max_depth = max_depth - Level(n)
         /\ calls[n].max_depth <= 0 =>
              (2 * n \notin DOMAIN calls /\ 2 * n + 1 \notin DOMAIN calls)
    /\ \A l \in 0..max_depth :
         Cardinality({ n \in DOMAIN calls : Level(n) = l /\ Outstanding(n) })
           <= Pow2(max_depth)
    /\ Cardinality({ n \in DOMAIN calls :
                       Outstanding(n) /\ ~Dispatches(n) }) <= Pow2(max_depth)

\* The budget is used up with cards left to split: 2^max_depth leaves are
\* outstanding, one of them with more than one card.
C9_Witness ==
  /\ max_depth = 1
  /\ Outstanding(2) /\ Outstanding(3)
  /\ Len(calls[3].array) >= 2

----------------------------------------------------------------------------
(* C10 *)

\* C10: under fair scheduling every run of main's call ends, with a list or
\* with an exception; no join waits for ever; a call of at most one card or
\* with a budget <= 0 (a negative one like 0) submits nothing and returns
\* sorted(array).
C10_Termination ==
  /\ <>(pc \in {"done", "aborted"})
  /\ [](\A n \in DOMAIN calls :
          (Len(calls[n].array) <= 1 \/ calls[n].max_depth <= 0) =>
            /\ 2 * n \notin DOMAIN calls /\ 2 * n + 1 \notin DOMAIN calls
            /\ calls[n].st \in {"submitted", "returned", "raised"}
            /\ calls[n].st = "returned" => calls[n].result = sorted(calls[n].array))

\* main is over after a sort through two levels of workers.
C10_Witness == pc = "done" /\ Returned(6) /\ Returned(7)

====
